---- MODULE Spec2Model ----
(***************************************************************************)
(* A model of the PTE programmatic-interaction client (src/src/main.rs):   *)
(* main's two sequential submissions, submit_transaction, the JSON form of *)
(* TransactionBody and the address accessors of Receipt.                   *)
(*                                                                         *)
(* Text (String) is a sequence of one-character strings, so that hex       *)
(* decoding, JSON escaping and JSON parsing are computed character by      *)
(* character.                                                              *)
(***************************************************************************)
EXTENDS Integers, Sequences, FiniteSets, TLC

VARIABLES
    mpc,                        \* position of main
    pc,                         \* position inside submit_transaction
    tx,                         \* the &NotarizedTransaction of the current call
    transaction_body,           \* the TransactionBody built at lines 129-135
    calls,                      \* the transactions submit_transaction was called on, by name
    posts,                      \* the HTTP POSTs issued so far: the call and the JSON text
    response,                   \* what send() gave back
    result,                     \* the value submit_transaction returned
    account_creation_nonce,
    xrd_transfer_nonce,
    account_creation_result,    \* what the first submit_transaction returned
    account_component_address,
    receipt,                    \* the Receipt an accessor is called on
    receipt_in,                 \* that Receipt as it was handed over
    accessed,                   \* the outcome of the accessor call
    jbody,                      \* a TransactionBody to serialize
    jtext,                      \* its JSON text
    jparsed                     \* the TransactionBody parsed back from jtext

vars == <<mpc, pc, tx, transaction_body, calls, posts, response, result,
          account_creation_nonce, xrd_transfer_nonce, account_creation_result,
          account_component_address, receipt, receipt_in, accessed,
          jbody, jtext, jparsed>>

submitVars == <<pc, tx, transaction_body, calls, posts, response, result>>
mainVars == <<mpc, account_creation_nonce, xrd_transfer_nonce,
              account_creation_result, account_component_address>>
receiptVars == <<receipt, receipt_in, accessed>>
jsonVars == <<jbody, jtext, jparsed>>

None == [none |-> TRUE]
\* A local of main once it is bound.
Some(v) == [some |-> v]

(***************************************************************************)
(* Bounds of the model.                                                    *)
(***************************************************************************)
\* Bytes of a typed address (scaled down; the literal of line 71 is cut to it).
AddrBytes == 2
\* Longest raw address list of a receipt handed to an accessor.
MaxList == 2
\* Most intent signatures of a submitted transaction.
MaxSigs == 2
\* Most instructions of a submitted manifest.
MaxInstr == 2
\* Longest manifest string of a TransactionBody that is round-tripped.
MaxStr == 2
\* Most signatures of a TransactionBody that is round-tripped.
MaxJsonSigs == 1

(***************************************************************************)
(* Characters.                                                             *)
(***************************************************************************)
QUOTE == "\""
BSLASH == "\\"
NL == "\n"

SeqsUpTo(S, n) == UNION { [1..k -> S] : k \in 0..n }

(***************************************************************************)
(* Hex: Display of keys, signatures and addresses; hex::decode in from_str *)
(***************************************************************************)
HexDigits == <<"0", "1", "2", "3", "4", "5", "6", "7",
               "8", "9", "a", "b", "c", "d", "e", "f">>
UpperHexDigits == <<"0", "1", "2", "3", "4", "5", "6", "7",
                    "8", "9", "A", "B", "C", "D", "E", "F">>

IsHexChar(c) == \E i \in 1..16 : HexDigits[i] = c \/ UpperHexDigits[i] = c

HexVal(c) == (CHOOSE i \in 1..16 : HexDigits[i] = c \/ UpperHexDigits[i] = c) - 1

\* hex::encode: two lowercase digits per byte, high nibble first.
RECURSIVE HexEncode(_)
HexEncode(bytes) ==
    IF bytes = <<>> THEN <<>>
    ELSE <<HexDigits[(Head(bytes) \div 16) + 1], HexDigits[(Head(bytes) % 16) + 1]>>
         \o HexEncode(Tail(bytes))

\* hex::decode: an odd length or a non-hex character is an error.
RECURSIVE HexDecodePairs(_)
HexDecodePairs(s) ==
    IF s = <<>> THEN <<>>
    ELSE <<16 * HexVal(s[1]) + HexVal(s[2])>> \o HexDecodePairs(SubSeq(s, 3, Len(s)))

HexDecode(s) ==
    IF Len(s) % 2 # 0 THEN [ok |-> FALSE, error |-> "OddLength"]
    ELSE IF \E i \in 1..Len(s) : ~IsHexChar(s[i])
         THEN [ok |-> FALSE, error |-> "InvalidHexCharacter"]
         ELSE [ok |-> TRUE, value |-> HexDecodePairs(s)]

(***************************************************************************)
(* Typed addresses: PackageAddress, ComponentAddress, ResourceAddress.     *)
(***************************************************************************)
Address(type, bytes) == [type |-> type, bytes |-> bytes]

\* <Type>Address::from_str(x): hex-decode, then the fixed length of an address.
from_str(type, x) ==
    LET decoded == HexDecode(x)
    IN  IF ~decoded.ok THEN [ok |-> FALSE, error |-> "InvalidHex"]
        ELSE IF Len(decoded.value) # AddrBytes
             THEN [ok |-> FALSE, error |-> "InvalidLength"]
             ELSE [ok |-> TRUE, value |-> Address(type, decoded.value)]

\* Display of an address: its bytes in hex.
AddressToString(a) == HexEncode(a.bytes)

RECURSIVE HexPad(_, _)
\* `prefix` filled with "0" up to n characters.
HexPad(prefix, n) == IF Len(prefix) >= n THEN prefix ELSE HexPad(Append(prefix, "0"), n)

(***************************************************************************)
(* Receipt and its accessors (lines 168-203).                              *)
(***************************************************************************)
Receipt(hash, status, packages, components, resources) ==
    [transaction_hash |-> hash, status |-> status, outputs |-> <<>>, logs |-> <<>>,
     new_packages |-> packages, new_components |-> components,
     new_resources |-> resources]

Returned(v) == [panicked |-> FALSE, value |-> v]
Panicked == [panicked |-> TRUE]

\* A collect that drops the strings that do not parse (filter_map) instead of
\* unwrapping each.
RECURSIVE MapSkipMalformed(_, _, _)
MapSkipMalformed(type, raw, acc) ==
    IF raw = <<>> THEN Returned(acc)
    ELSE LET parsed == from_str(type, Head(raw))
         IN  MapSkipMalformed(type, Tail(raw),
                              IF parsed.ok THEN Append(acc, parsed.value) ELSE acc)

\* .iter().map(|x| T::from_str(x).unwrap()).collect(): the strings are parsed in
\* order; the first Err unwinds (panic) and nothing is returned.
RECURSIVE MapUnwrap(_, _, _)
MapUnwrap(type, raw, acc) ==
    IF raw = <<>> THEN Returned(acc)
    ELSE LET parsed == from_str(type, Head(raw))
         IN  IF parsed.ok THEN MapUnwrap(type, Tail(raw), Append(acc, parsed.value))
             ELSE Panicked

new_packages(self) == MapUnwrap("PackageAddress", self.new_packages, <<>>)

\* new_components reading the list of another category.
new_components_from_resources(self) ==
    MapUnwrap("ComponentAddress", self.new_resources, <<>>)

new_components(self) == MapUnwrap("ComponentAddress", self.new_components, <<>>)

new_resources(self) == MapUnwrap("ResourceAddress", self.new_resources, <<>>)

\* Raw strings a remote service may put in a receipt: two well-formed addresses,
\* one with a non-hex character, one of odd length, one a byte short.
AddrA == HexPad(<<"0", "2", "a", "b">>, 2 * AddrBytes)
AddrB == HexPad(<<"0", "2", "C", "d">>, 2 * AddrBytes)
AddrBadHex == HexPad(<<"0", "2", "g">>, 2 * AddrBytes)
AddrOdd == HexPad(<<"0", "2">>, 2 * AddrBytes - 1)
AddrShort == HexPad(<<"0", "2">>, 2 * AddrBytes - 2)
AddrPool == {AddrA, AddrB, AddrBadHex, AddrOdd, AddrShort}

WellFormed(type, raw) == \A i \in 1..Len(raw) : from_str(type, raw[i]).ok

RawLists == SeqsUpTo(AddrPool, MaxList)
FewRawLists == {<<>>, <<AddrB>>, <<AddrBadHex>>}

ReceiptInputs ==
    { Receipt("h", "SUCCESS", p, c, r) : p \in RawLists, c \in FewRawLists, r \in FewRawLists }
    \cup { Receipt("h", "SUCCESS", p, c, r) : p \in FewRawLists, c \in RawLists, r \in FewRawLists }
    \cup { Receipt("h", "SUCCESS", p, c, r) : p \in FewRawLists, c \in FewRawLists, r \in RawLists }

Idle ==
    /\ mpc = "none" /\ pc = "none" /\ tx = None /\ transaction_body = None
    /\ calls = <<>> /\ posts = <<>> /\ response = None /\ result = None
    /\ account_creation_nonce = None /\ xrd_transfer_nonce = None
    /\ account_creation_result = None /\ account_component_address = None

JsonIdle == jbody = None /\ jtext = None /\ jparsed = None

ReceiptIdle == receipt = None /\ receipt_in = None /\ accessed = None

InitReceipt ==
    /\ Idle /\ JsonIdle
    /\ receipt \in ReceiptInputs
    /\ receipt_in = receipt
    /\ accessed = None

CallNewPackages ==
    /\ receipt # None /\ accessed = None
    /\ accessed' = [category |-> "new_packages", outcome |-> new_packages(receipt)]
    /\ UNCHANGED <<receipt, receipt_in, submitVars, mainVars, jsonVars>>

CallNewComponents ==
    /\ receipt # None /\ accessed = None
    /\ accessed' = [category |-> "new_components", outcome |-> new_components(receipt)]
    /\ UNCHANGED <<receipt, receipt_in, submitVars, mainVars, jsonVars>>

CallNewResources ==
    /\ receipt # None /\ accessed = None
    /\ accessed' = [category |-> "new_resources", outcome |-> new_resources(receipt)]
    /\ UNCHANGED <<receipt, receipt_in, submitVars, mainVars, jsonVars>>

NextReceipt == CallNewPackages \/ CallNewComponents \/ CallNewResources

SpecReceipt == InitReceipt /\ [][NextReceipt]_vars

(***************************************************************************)
(* Nonce, Signature, TransactionBody (lines 147-166) and their JSON form.  *)
(***************************************************************************)
Nonce(value) == [value |-> value]

Signature(public_key, signature) == [public_key |-> public_key, signature |-> signature]

TransactionBody(manifest, nonce, signatures) ==
    [manifest |-> manifest, nonce |-> nonce, signatures |-> signatures]

TAB == "\t"
CR == "\r"
Digits == <<"0", "1", "2", "3", "4", "5", "6", "7", "8", "9">>

\* The text of the keys, as #[derive(Serialize)] writes them: the fields' names
\* in declaration order, compact.
KeyManifest == <<"{", QUOTE, "m", "a", "n", "i", "f", "e", "s", "t", QUOTE, ":">>
KeyNonceValue == <<",", QUOTE, "n", "o", "n", "c", "e", QUOTE, ":",
                   "{", QUOTE, "v", "a", "l", "u", "e", QUOTE, ":">>
KeySignatures == <<"}", ",", QUOTE, "s", "i", "g", "n", "a", "t", "u", "r", "e", "s", QUOTE, ":", "[">>
KeyPublicKey == <<"{", QUOTE, "p", "u", "b", "l", "i", "c", "_", "k", "e", "y", QUOTE, ":">>
KeySignature == <<",", QUOTE, "s", "i", "g", "n", "a", "t", "u", "r", "e", QUOTE, ":">>

\* A character inside a JSON string: the quote, the backslash and the control
\* characters are escaped, everything else is written as it is.
EscapeChar(c) ==
    IF c = QUOTE THEN <<BSLASH, QUOTE>>
    ELSE IF c = BSLASH THEN <<BSLASH, BSLASH>>
    ELSE IF c = NL THEN <<BSLASH, "n">>
    ELSE IF c = TAB THEN <<BSLASH, "t">>
    ELSE IF c = CR THEN <<BSLASH, "r">>
    ELSE <<c>>

\* Every character of s escaped, in order (computed by halves, which keeps the
\* evaluation of a long manifest shallow).
RECURSIVE EscapeChars(_)
EscapeChars(s) ==
    IF Len(s) = 0 THEN <<>>
    ELSE IF Len(s) = 1 THEN EscapeChar(s[1])
    ELSE LET mid == Len(s) \div 2
         IN  EscapeChars(SubSeq(s, 1, mid)) \o EscapeChars(SubSeq(s, mid + 1, Len(s)))

SerializeString(s) == <<QUOTE>> \o EscapeChars(s) \o <<QUOTE>>

\* A u64 in decimal, no leading zero.
RECURSIVE SerializeU64(_)
SerializeU64(n) ==
    IF n < 10 THEN <<Digits[n + 1]>>
    ELSE Append(SerializeU64(n \div 10), Digits[(n % 10) + 1])

SerializeSignature(sig) ==
    KeyPublicKey \o SerializeString(sig.public_key)
    \o KeySignature \o SerializeString(sig.signature) \o <<"}">>

RECURSIVE SerializeSignatures(_)
SerializeSignatures(sigs) ==
    IF sigs = <<>> THEN <<>>
    ELSE IF Len(sigs) = 1 THEN SerializeSignature(sigs[1])
    ELSE SerializeSignature(Head(sigs)) \o <<",">> \o SerializeSignatures(Tail(sigs))

\* A body written with the nonce as a bare number, not as the Nonce struct.
SerializeBodyFlatNonce(body) ==
    KeyManifest \o SerializeString(body.manifest)
    \o SubSeq(KeyNonceValue, 1, 9) \o SerializeU64(body.nonce.value)
    \o Tail(KeySignatures) \o SerializeSignatures(body.signatures) \o <<"]", "}">>

\* serde_json::to_string(&TransactionBody), what .json(&transaction_body) sends.
SerializeBody(body) ==
    KeyManifest \o SerializeString(body.manifest)
    \o KeyNonceValue \o SerializeU64(body.nonce.value)
    \o KeySignatures \o SerializeSignatures(body.signatures) \o <<"]", "}">>

ParseError == [ok |-> FALSE]
Parsed(v, next) == [ok |-> TRUE, value |-> v, next |-> next]

\* The text holds `lit` at position i.
Expect(text, i, lit) ==
    /\ i + Len(lit) - 1 <= Len(text)
    /\ SubSeq(text, i, i + Len(lit) - 1) = lit

Unescape(c) ==
    IF c = QUOTE THEN <<QUOTE>>
    ELSE IF c = BSLASH THEN <<BSLASH>>
    ELSE IF c = "/" THEN <<"/">>
    ELSE IF c = "n" THEN <<NL>>
    ELSE IF c = "t" THEN <<TAB>>
    ELSE IF c = "r" THEN <<CR>>
    ELSE <<>>

\* The characters of a string up to its closing quote; a raw control character,
\* an unknown escape or the end of the text is an error.
RECURSIVE ParseStringChars(_, _, _)
ParseStringChars(text, i, acc) ==
    IF i > Len(text) THEN ParseError
    ELSE IF text[i] = QUOTE THEN Parsed(acc, i + 1)
    ELSE IF text[i] \in {NL, TAB, CR} THEN ParseError
    ELSE IF text[i] = BSLASH
         THEN IF i + 1 > Len(text) \/ Unescape(text[i + 1]) = <<>> THEN ParseError
              ELSE ParseStringChars(text, i + 2, acc \o Unescape(text[i + 1]))
         ELSE ParseStringChars(text, i + 1, Append(acc, text[i]))

ParseString(text, i) ==
    IF Expect(text, i, <<QUOTE>>) THEN ParseStringChars(text, i + 1, <<>>) ELSE ParseError

IsDigit(c) == \E d \in 1..10 : Digits[d] = c
DigitVal(c) == (CHOOSE d \in 1..10 : Digits[d] = c) - 1

RECURSIVE ParseDigits(_, _, _)
ParseDigits(text, i, acc) ==
    IF i <= Len(text) /\ IsDigit(text[i])
    THEN ParseDigits(text, i + 1, 10 * acc + DigitVal(text[i]))
    ELSE Parsed(acc, i)

\* A u64: digits, and no digit after a leading zero.
ParseU64(text, i) ==
    IF i > Len(text) \/ ~IsDigit(text[i]) THEN ParseError
    ELSE IF text[i] = "0"
         THEN IF i + 1 <= Len(text) /\ IsDigit(text[i + 1]) THEN ParseError
              ELSE Parsed(0, i + 1)
         ELSE ParseDigits(text, i, 0)

ParseSignature(text, i) ==
    IF ~Expect(text, i, KeyPublicKey) THEN ParseError
    ELSE LET pk == ParseString(text, i + Len(KeyPublicKey))
         IN  IF ~pk.ok \/ ~Expect(text, pk.next, KeySignature) THEN ParseError
             ELSE LET sg == ParseString(text, pk.next + Len(KeySignature))
                  IN  IF ~sg.ok \/ ~Expect(text, sg.next, <<"}">>) THEN ParseError
                      ELSE Parsed(Signature(pk.value, sg.value), sg.next + 1)

\* The elements of the signatures array after its "[", up to and with its "]".
RECURSIVE ParseSignatures(_, _, _)
ParseSignatures(text, i, acc) ==
    IF acc = <<>> /\ Expect(text, i, <<"]">>) THEN Parsed(acc, i + 1)
    ELSE LET sig == ParseSignature(text, i)
         IN  IF ~sig.ok THEN ParseError
             ELSE IF Expect(text, sig.next, <<",">>)
                  THEN ParseSignatures(text, sig.next + 1, Append(acc, sig.value))
                  ELSE IF Expect(text, sig.next, <<"]">>)
                       THEN Parsed(Append(acc, sig.value), sig.next + 1)
                       ELSE ParseError

\* serde_json::from_str::<TransactionBody> on the compact text to_string writes.
DeserializeBody(text) ==
    IF ~Expect(text, 1, KeyManifest) THEN ParseError
    ELSE LET m == ParseString(text, 1 + Len(KeyManifest))
         IN  IF ~m.ok \/ ~Expect(text, m.next, KeyNonceValue) THEN ParseError
             ELSE LET n == ParseU64(text, m.next + Len(KeyNonceValue))
                  IN  IF ~n.ok \/ ~Expect(text, n.next, KeySignatures) THEN ParseError
                      ELSE LET sigs == ParseSignatures(text, n.next + Len(KeySignatures), <<>>)
                           IN  IF ~sigs.ok \/ ~Expect(text, sigs.next, <<"}">>)
                                  \/ sigs.next # Len(text)
                               THEN ParseError
                               ELSE Parsed(TransactionBody(m.value, Nonce(n.value), sigs.value),
                                           sigs.next + 1)

\* The TransactionBody values that are round-tripped.
JsonChars == {"a", QUOTE, BSLASH, NL, ","}
JsonManifests == SeqsUpTo(JsonChars, MaxStr)
JsonKeyStrings == {<<>>, <<"0", "4", QUOTE>>}
JsonNonces == {0, 7, 42, 100, 2147483647}
JsonSignatures ==
    SeqsUpTo({ Signature(p, s) : p \in JsonKeyStrings, s \in JsonKeyStrings }, MaxJsonSigs)

BodyInputs ==
    { TransactionBody(m, Nonce(n), sigs) :
        m \in JsonManifests, n \in JsonNonces, sigs \in JsonSignatures }

InitJson ==
    /\ Idle /\ ReceiptIdle
    /\ jbody \in BodyInputs
    /\ jtext = None
    /\ jparsed = None

JsonSerialize ==
    /\ jbody # None /\ jtext = None
    /\ jtext' = SerializeBody(jbody)
    /\ UNCHANGED <<jbody, jparsed, submitVars, mainVars, receiptVars>>

JsonDeserialize ==
    /\ jtext # None /\ jparsed = None
    /\ jparsed' = DeserializeBody(jtext)
    /\ UNCHANGED <<jbody, jtext, submitVars, mainVars, receiptVars>>

NextJson == JsonSerialize \/ JsonDeserialize

SpecJson == InitJson /\ [][NextJson]_vars

(***************************************************************************)
(* The transaction handed to submit_transaction, as the SDK builds it.     *)
(***************************************************************************)
TransactionHeader(network, nonce, notary_public_key) ==
    [version |-> 1, network |-> network,
     start_epoch_inclusive |-> 0, end_epoch_exclusive |-> 100,
     nonce |-> nonce, notary_public_key |-> notary_public_key,
     notary_as_signatory |-> FALSE]

NotarizedTransaction(header, manifest, intent_signatures, notary_signature) ==
    [signed_intent |->
        [intent |-> [header |-> header, manifest |-> manifest],
         intent_signatures |-> intent_signatures],
     notary_signature |-> notary_signature]

\* An instruction of a manifest and an argument of it.
Instr(kind, address, name, args) ==
    [kind |-> kind, address |-> address, name |-> name, args |-> args]
Arg(type, text) == [type |-> type, text |-> text]

MnemonicCallMethod == <<"C", "A", "L", "L", "_", "M", "E", "T", "H", "O", "D", " ">>
MnemonicCallFunction == <<"C", "A", "L", "L", "_", "F", "U", "N", "C", "T", "I", "O", "N", " ">>
MnemonicTakeFromWorktop == <<"T", "A", "K", "E", "_", "F", "R", "O", "M", "_",
                             "W", "O", "R", "K", "T", "O", "P", " ">>
Mnemonic(kind) ==
    IF kind = "CallMethod" THEN MnemonicCallMethod
    ELSE IF kind = "CallFunction" THEN MnemonicCallFunction
    ELSE MnemonicTakeFromWorktop

RECURSIVE RenderArgs(_)
RenderArgs(args) ==
    IF args = <<>> THEN <<>>
    ELSE <<" ", QUOTE>> \o Head(args).text \o <<QUOTE>> \o RenderArgs(Tail(args))

\* One statement of manifest text: the mnemonic, the quoted address, the quoted
\* name if there is one, the quoted arguments, ";" and a line break.
RenderInstr(i) ==
    Mnemonic(i.kind) \o <<QUOTE>> \o AddressToString(i.address) \o <<QUOTE>>
    \o (IF i.name = <<>> THEN <<>> ELSE <<" ", QUOTE>> \o i.name \o <<QUOTE>>)
    \o RenderArgs(i.args) \o <<";", NL>>

HasArg(i, type) == \E k \in 1..Len(i.args) : i.args[k].type = type

\* decompile(&manifest) -> Result<String, DecompileError>: the instructions in
\* order; an argument that does not decode, or a bucket that was never taken
\* from the worktop, ends it with that error.
RECURSIVE DecompileFrom(_, _, _)
DecompileFrom(instructions, buckets, text) ==
    IF instructions = <<>> THEN [ok |-> TRUE, value |-> text]
    ELSE LET i == Head(instructions)
         IN  IF HasArg(i, "Undecodable") THEN [ok |-> FALSE, error |-> "DecodeError"]
             ELSE IF HasArg(i, "Bucket") /\ buckets = 0
                  THEN [ok |-> FALSE, error |-> "IdValidatorError"]
                  ELSE DecompileFrom(Tail(instructions),
                                     IF i.kind = "TakeFromWorktop" THEN buckets + 1
                                     ELSE IF HasArg(i, "Bucket") THEN buckets - 1
                                     ELSE buckets,
                                     text \o RenderInstr(i))

decompile(manifest) == DecompileFrom(manifest, 0, <<>>)

(***************************************************************************)
(* TransactionSubmissionError (lines 205-224) and Result.                  *)
(***************************************************************************)
Ok(v) == [ok |-> TRUE, value |-> v]
Err(e) == [ok |-> FALSE, error |-> e]

NoNonceFound == [variant |-> "NoNonceFound"]
MultipleNonceFound == [variant |-> "MultipleNonceFound"]
DecompileError(cause) == [variant |-> "DecompileError", cause |-> cause]
HttpRequestError(cause) == [variant |-> "HttpRequestError", cause |-> cause]

\* A conversion that keeps the variant and drops the cause.
FromReqwestErrorLossy(error) == HttpRequestError("request failed")

\* `?` on a reqwest::Error: From<reqwest::Error> for TransactionSubmissionError.
FromReqwestError(error) == HttpRequestError(error)

(***************************************************************************)
(* submit_transaction (lines 105-145).                                     *)
(***************************************************************************)
\* Display of a public key or a signature: its bytes in hex.
KeyToString(bytes) == HexEncode(bytes)

\* The instructions of a manifest that set a nonce (the older transaction format
\* carried the nonce as an instruction; the header-based format has none).
NonceInstructions(manifest) == SelectSeq(manifest, LAMBDA i : i.kind = "Nonce")

\* The nonce as an instruction scan would find it: the value of the one nonce
\* instruction, and 0 when there is not exactly one.
LegacyBodyNonce(transaction) ==
    LET found == NonceInstructions(transaction.signed_intent.intent.manifest)
    IN  Nonce(IF Len(found) = 1 THEN found[1].args[1].text ELSE 0)

\* Lines 109-111: the nonce of the header.
BodyNonce(transaction) == Nonce(transaction.signed_intent.intent.header.nonce)

\* Lines 123-126: built and never used.
NotarySignature(transaction) ==
    Signature(KeyToString(transaction.signed_intent.intent.header.notary_public_key),
              KeyToString(transaction.notary_signature))

\* The intent signatures followed by the notary's.
BodySignaturesWithNotary(transaction) ==
    Append([k \in 1..Len(transaction.signed_intent.intent_signatures) |->
                Signature(KeyToString(transaction.signed_intent.intent_signatures[k][1]),
                          KeyToString(transaction.signed_intent.intent_signatures[k][2]))],
           NotarySignature(transaction))

\* Lines 113-121: one Signature per intent signature, in order.
BodySignatures(transaction) ==
    [k \in 1..Len(transaction.signed_intent.intent_signatures) |->
        Signature(KeyToString(transaction.signed_intent.intent_signatures[k][1]),
                  KeyToString(transaction.signed_intent.intent_signatures[k][2]))]

\* A body built whether or not the manifest decompiles (the error dropped, the
\* manifest left empty).
BuildBodyLenient(transaction) ==
    LET manifest == decompile(transaction.signed_intent.intent.manifest)
    IN  Ok(TransactionBody(IF manifest.ok THEN manifest.value ELSE <<>>,
                           BodyNonce(transaction), BodySignatures(transaction)))

\* Lines 129-135: the body, or the decompiler's error wrapped by map_err and
\* returned by `?`.
BuildBody(transaction) ==
    LET manifest == decompile(transaction.signed_intent.intent.manifest)
    IN  IF manifest.ok
        THEN Ok(TransactionBody(manifest.value, BodyNonce(transaction),
                                BodySignatures(transaction)))
        ELSE Err(DecompileError(manifest.error))

\* What the remote end may answer. send() fails in the transport, or gives a
\* response whose body is a receipt, JSON of another shape, or no JSON at all.
TransportErrors == {"connect", "timeout"}
ResponseReceipts ==
    { Receipt("h", "SUCCESS", <<>>, c, <<>>) :
        c \in {<<>>, <<AddrA>>, <<AddrB, AddrA>>, <<AddrA, AddrBadHex>>} }
    \cup { Receipt("h", "FAILURE", <<>>, <<>>, <<>>) }
Responses ==
    { [json |-> "receipt", receipt |-> r] : r \in ResponseReceipts }
    \cup { [json |-> "other"], [json |-> "malformed"] }
SendOutcomes == { Err(e) : e \in TransportErrors } \cup { Ok(r) : r \in Responses }

\* Response::json::<Receipt>(): the receipt, or a decode error.
ResponseJson(resp) ==
    IF resp.json = "receipt" THEN Ok(resp.receipt)
    ELSE IF resp.json = "other" THEN Err("decode: missing field")
    ELSE Err("decode: syntax")

\* The POST of lines 138-141, as the far end sees it.
Post(body) == [call |-> Len(calls), json |-> SerializeBody(body)]

\* Lines 108-135.
SubmitBuildBody ==
    /\ pc = "call"
    /\ LET built == BuildBody(tx)
       IN  IF built.ok
           THEN /\ transaction_body' = built.value
                /\ pc' = "send"
                /\ UNCHANGED result
           ELSE /\ result' = built
                /\ pc' = "returned"
                /\ UNCHANGED transaction_body
    /\ UNCHANGED <<tx, calls, posts, response, mainVars, receiptVars, jsonVars>>

\* A send that posts once more when the transport fails.
SubmitSendRetry ==
    /\ pc = "send"
    /\ \E outcome \in SendOutcomes :
        /\ response' = outcome
        /\ IF outcome.ok
           THEN /\ posts' = Append(posts, Post(transaction_body))
                /\ pc' = "json" /\ UNCHANGED result
           ELSE /\ posts' = posts \o <<Post(transaction_body), Post(transaction_body)>>
                /\ pc' = "returned" /\ result' = Err(FromReqwestError(outcome.error))
    /\ UNCHANGED <<tx, transaction_body, calls, mainVars, receiptVars, jsonVars>>

\* Lines 138-141: one POST of the body as JSON; `?` returns a transport error.
SubmitSend ==
    /\ pc = "send"
    /\ posts' = Append(posts, Post(transaction_body))
    /\ \E outcome \in SendOutcomes :
        /\ response' = outcome
        /\ IF outcome.ok
           THEN pc' = "json" /\ UNCHANGED result
           ELSE pc' = "returned" /\ result' = Err(FromReqwestError(outcome.error))
    /\ UNCHANGED <<tx, transaction_body, calls, mainVars, receiptVars, jsonVars>>

\* Lines 142-144: the response body as a Receipt; `?` returns a decode error.
SubmitJson ==
    /\ pc = "json"
    /\ LET parsed == ResponseJson(response.value)
       IN  result' = IF parsed.ok THEN Ok(parsed.value)
                     ELSE Err(FromReqwestError(parsed.error))
    /\ pc' = "returned"
    /\ UNCHANGED <<tx, transaction_body, calls, posts, response, mainVars, receiptVars, jsonVars>>

\* SDK constants, as addresses of the model's width.
ConstAddress(type, first, last) ==
    Address(type, <<first>> \o [k \in 1..(AddrBytes - 2) |-> 0] \o <<last>>)
SYSTEM_COMPONENT == ConstAddress("ComponentAddress", 2, 2)
RADIX_TOKEN == ConstAddress("ResourceAddress", 3, 4)
ECDSA_TOKEN == ConstAddress("ResourceAddress", 3, 5)
ACCOUNT_PACKAGE == ConstAddress("PackageAddress", 1, 3)

NameFreeXrd == <<"f", "r", "e", "e", "_", "x", "r", "d">>
NameDeposit == <<"d", "e", "p", "o", "s", "i", "t">>
NameWithdraw == <<"w", "i", "t", "h", "d", "r", "a", "w", "_", "b", "y", "_",
                  "a", "m", "o", "u", "n", "t">>
NameNewWithResource == <<"n", "e", "w", "_", "w", "i", "t", "h", "_",
                         "r", "e", "s", "o", "u", "r", "c", "e">>
BucketArg == Arg("Bucket", <<"b", "u", "c", "k", "e", "t", "1">>)

\* The transactions submit_transaction is checked on.
KeyPairPool == { <<<<3, 171>>, <<48, 1>>>>, <<<<2, 205>>, <<48, 2>>>> }
InstrPool ==
    { Instr("CallMethod", SYSTEM_COMPONENT, NameFreeXrd, <<>>),
      Instr("TakeFromWorktop", RADIX_TOKEN, <<>>, <<>>),
      Instr("CallMethod", SYSTEM_COMPONENT, NameDeposit, <<BucketArg>>),
      Instr("CallMethod", SYSTEM_COMPONENT, NameDeposit, <<Arg("Undecodable", <<>>)>>) }
HeaderNonces == {0, 42, 2147483647}

TxInputs ==
    { NotarizedTransaction(TransactionHeader("InternalTestnet", n, <<3, 1>>), m, sigs, <<48, 9>>) :
        n \in HeaderNonces, m \in SeqsUpTo(InstrPool, MaxInstr),
        sigs \in SeqsUpTo(KeyPairPool, MaxSigs) }

InitSubmit ==
    /\ ReceiptIdle /\ JsonIdle
    /\ mpc = "none"
    /\ account_creation_nonce = None /\ xrd_transfer_nonce = None
    /\ account_creation_result = None /\ account_component_address = None
    /\ pc = "call"
    /\ tx \in TxInputs
    /\ calls = <<"transaction">>
    /\ transaction_body = None /\ posts = <<>> /\ response = None /\ result = None

NextSubmit == SubmitBuildBody \/ SubmitSend \/ SubmitJson

SpecSubmit == InitSubmit /\ [][NextSubmit]_vars

(***************************************************************************)
(* main (lines 14-98).                                                     *)
(***************************************************************************)
\* gen_range(0..100): the nonces are drawn from 0..NonceRange-1.
NonceRange == 100

\* Lines 16-24: the sample keys (cut to two bytes).
user_private_key == <<124, 159>>
notary_private_key == <<0, 1>>
PublicKey(private_key) == <<3>> \o private_key
user_public_key == PublicKey(user_private_key)
notary_public_key == PublicKey(notary_private_key)

\* The signature of a key over an intent: bytes fixed by the key and the intent.
Sign(private_key, header) == private_key \o <<header.nonce % 256>>

\* TransactionBuilder ... .sign(&user_private_key).notarize(&notary_private_key).build()
BuildTransaction(header, manifest) ==
    NotarizedTransaction(header, manifest,
                         <<<<user_public_key, Sign(user_private_key, header)>>>>,
                         Sign(notary_private_key, header))

\* Lines 27-52.
AccountCreationTx(nonce) ==
    BuildTransaction(
        TransactionHeader("InternalTestnet", nonce, notary_public_key),
        << Instr("CallMethod", SYSTEM_COMPONENT, NameFreeXrd, <<>>),
           Instr("TakeFromWorktop", RADIX_TOKEN, <<>>, <<>>),
           Instr("CallFunction", ACCOUNT_PACKAGE, NameNewWithResource,
                 <<Arg("AccessRule", AddressToString(ECDSA_TOKEN) \o KeyToString(user_public_key)),
                   BucketArg>>) >>)

\* The literal of lines 70-73, cut to the width of an address of the model.
DepositAccountLiteral ==
    SubSeq(<<"0", "2", "c", "1", "d", "7", "a", "d", "d", "4", "8", "7", "d", "b",
             "c", "b", "b", "8", "c", "8", "1", "d", "a", "3", "7", "8", "a", "a",
             "8", "d", "4", "9", "2", "4", "d", "9", "8", "4", "4", "8", "7", "4",
             "d", "1", "c", "c", "3", "8", "2", "9", "a", "1", "7", "3">>,
           1, 2 * AddrBytes)

\* Lines 64-91.
XrdTransferTx(nonce, account) ==
    BuildTransaction(
        TransactionHeader("LocalSimulator", nonce, notary_public_key),
        << Instr("CallMethod", account, NameWithdraw,
                 <<Arg("Decimal", <<"1", "0", "0", "0", "0">>),
                   Arg("ResourceAddress", AddressToString(RADIX_TOKEN))>>),
           Instr("TakeFromWorktop", RADIX_TOKEN, <<>>, <<>>),
           Instr("CallMethod", from_str("ComponentAddress", DepositAccountLiteral).value,
                 NameDeposit, <<BucketArg>>) >>)

\* An account taken without the unwraps: a fixed address stands in when the
\* submission failed or the receipt names no usable component.
FirstNewComponentOrDefault(submitted) ==
    IF ~submitted.ok THEN Returned(SYSTEM_COMPONENT)
    ELSE LET components == MapSkipMalformed("ComponentAddress",
                                            submitted.value.new_components, <<>>)
         IN  IF components.value = <<>> THEN Returned(SYSTEM_COMPONENT)
             ELSE Returned(components.value[1])

\* Lines 54-55: .unwrap() of the submission, then new_components()[0]. An Err, a
\* raw string that is no address, or an empty list panics.
FirstNewComponent(submitted) ==
    IF ~submitted.ok THEN Panicked
    ELSE LET components == new_components(submitted.value)
         IN  IF components.panicked \/ components.value = <<>> THEN Panicked
             ELSE Returned(components.value[1])

Init ==
    /\ ReceiptIdle /\ JsonIdle
    /\ mpc = "start" /\ pc = "none"
    /\ tx = None /\ transaction_body = None
    /\ calls = <<>> /\ posts = <<>> /\ response = None /\ result = None
    /\ account_creation_nonce = None /\ xrd_transfer_nonce = None
    /\ account_creation_result = None /\ account_component_address = None

\* Lines 16-54: the account-creation transaction is built and submitted.
MainSubmitAccountCreation ==
    /\ mpc = "start"
    /\ \E nonce \in 0..(NonceRange - 1) :
        /\ account_creation_nonce' = Some(nonce)
        /\ tx' = AccountCreationTx(nonce)
    /\ calls' = Append(calls, "account_creation_tx")
    /\ mpc' = "account_creation"
    /\ pc' = "call"
    /\ UNCHANGED <<transaction_body, posts, response, result, xrd_transfer_nonce,
                   account_creation_result, account_component_address,
                   receiptVars, jsonVars>>

\* Lines 54-93: the first submission has returned; its receipt gives the account,
\* and the transfer is built and submitted.
MainSubmitXrdTransfer ==
    /\ mpc = "account_creation" /\ pc = "returned"
    /\ account_creation_result' = result
    /\ LET account == FirstNewComponent(result)
       IN  IF account.panicked
           THEN /\ mpc' = "panicked"
                /\ pc' = "none"
                /\ UNCHANGED <<tx, transaction_body, calls, response, result,
                               xrd_transfer_nonce, account_component_address>>
           ELSE /\ account_component_address' = account.value
                /\ \E nonce \in 0..(NonceRange - 1) :
                    /\ xrd_transfer_nonce' = Some(nonce)
                    /\ tx' = XrdTransferTx(nonce, account.value)
                /\ calls' = Append(calls, "xrd_transfer_tx")
                /\ mpc' = "xrd_transfer"
                /\ pc' = "call"
                /\ transaction_body' = None
                /\ response' = None
                /\ result' = None
    /\ UNCHANGED <<posts, account_creation_nonce, receiptVars, jsonVars>>

\* Lines 93-98: the second submission has returned; unwrap, print, end.
MainFinish ==
    /\ mpc = "xrd_transfer" /\ pc = "returned"
    /\ mpc' = IF result.ok THEN "done" ELSE "panicked"
    /\ pc' = "none"
    /\ UNCHANGED <<tx, transaction_body, calls, posts, response, result,
                   account_creation_nonce, xrd_transfer_nonce,
                   account_creation_result, account_component_address,
                   receiptVars, jsonVars>>

Next ==
    \/ MainSubmitAccountCreation
    \/ SubmitBuildBody
    \/ SubmitSend
    \/ SubmitJson
    \/ MainSubmitXrdTransfer
    \/ MainFinish

Spec == Init /\ [][Next]_vars

(***************************************************************************)
(* Properties.                                                             *)
(***************************************************************************)
Manifest(transaction) == transaction.signed_intent.intent.manifest
Header(transaction) == transaction.signed_intent.intent.header
Called == tx # None /\ pc # "none"

\* The text holds `needle` somewhere.
Contains(text, needle) == \E i \in 1..Len(text) : Expect(text, i, needle)

\* C1: when the manifest of the submitted transaction does not decompile, the
\* call has returned Err(DecompileError(cause)) with the decompiler's own cause
\* as soon as the body step is over, and no HTTP request was issued.
C1_DecompileFailureNoRequest ==
    (Called /\ pc # "call" /\ ~decompile(Manifest(tx)).ok) =>
        /\ pc = "returned"
        /\ result = Err(DecompileError(decompile(Manifest(tx)).error))
        /\ posts = <<>>
        /\ response = None

C1_Witness ==
    /\ pc = "returned"
    /\ ~decompile(Manifest(tx)).ok
    /\ result = Err(DecompileError("IdValidatorError"))
    /\ posts = <<>>

\* C2: one invocation issues at most one POST; once it is past the send, or has
\* returned, it has issued exactly one if the manifest decompiled and none
\* otherwise, also when the send or the decoding of the response failed.
C2_AtMostOnePost ==
    Called =>
        /\ Len(posts) <= 1
        /\ pc \in {"json", "returned"} =>
               Len(posts) = (IF decompile(Manifest(tx)).ok THEN 1 ELSE 0)
        /\ pc \in {"call", "send"} => posts = <<>>

C2_Witness ==
    /\ pc = "returned"
    /\ ~result.ok
    /\ result.error.variant = "HttpRequestError"
    /\ result.error.cause \in TransportErrors
    /\ Len(posts) = 1

\* C3: the posted body is the JSON of a TransactionBody whose manifest is the
\* decompiled text, whose nonce value is the header's nonce and whose signatures
\* are, entry for entry and in order, the string forms of the intent signatures'
\* public key and signature: no entry for the notary.
C3_ExpectedSignatures(transaction) ==
    [k \in 1..Len(transaction.signed_intent.intent_signatures) |->
        [public_key |-> HexEncode(transaction.signed_intent.intent_signatures[k][1]),
         signature |-> HexEncode(transaction.signed_intent.intent_signatures[k][2])]]

C3_PostedBody ==
    (Called /\ posts # <<>>) =>
        /\ decompile(Manifest(tx)).ok
        /\ transaction_body.nonce.value = Header(tx).nonce
        /\ Len(transaction_body.signatures) = Len(tx.signed_intent.intent_signatures)
        /\ transaction_body.signatures = C3_ExpectedSignatures(tx)
        /\ posts[Len(posts)].json =
               SerializeBody([manifest |-> decompile(Manifest(tx)).value,
                              nonce |-> [value |-> Header(tx).nonce],
                              signatures |-> C3_ExpectedSignatures(tx)])

C3_Witness ==
    /\ Called /\ Len(posts) = 1
    /\ Header(tx).nonce = 42
    /\ Len(tx.signed_intent.intent_signatures) = 1
    /\ Len(transaction_body.signatures) = 1
    /\ Contains(posts[1].json, <<QUOTE, "n", "o", "n", "c", "e", QUOTE, ":", "{", QUOTE,
                            "v", "a", "l", "u", "e", QUOTE, ":", "4", "2", "}">>)

\* C4: on a receipt whose raw list of a category holds only well-formed address
\* strings, the accessor of that category returns as many typed addresses, the
\* i-th the parsed form of the i-th string, and the receipt is as it was.
RawList(r, category) ==
    IF category = "new_packages" THEN r.new_packages
    ELSE IF category = "new_components" THEN r.new_components
    ELSE r.new_resources

AddressType(category) ==
    IF category = "new_packages" THEN "PackageAddress"
    ELSE IF category = "new_components" THEN "ComponentAddress"
    ELSE "ResourceAddress"

C4_AccessorPreservesOrderAndCount ==
    (accessed # None
     /\ WellFormed(AddressType(accessed.category), RawList(receipt_in, accessed.category))) =>
        LET raw == RawList(receipt_in, accessed.category)
        IN  /\ ~accessed.outcome.panicked
            /\ Len(accessed.outcome.value) = Len(raw)
            /\ \A i \in 1..Len(raw) :
                   accessed.outcome.value[i] =
                       from_str(AddressType(accessed.category), raw[i]).value
            /\ receipt = receipt_in

C4_Witness ==
    /\ accessed # None
    /\ accessed.category = "new_components"
    /\ receipt_in.new_components = <<AddrB, AddrA>>
    /\ ~accessed.outcome.panicked
    /\ Len(accessed.outcome.value) = 2
    /\ accessed.outcome.value[1] # accessed.outcome.value[2]

\* C5: a returned call gave exactly Ok(receipt) when decompilation, send and
\* decoding all succeeded, Err(DecompileError(cause)) when decompilation failed,
\* Err(HttpRequestError(cause)) when the send or the decoding failed, each with
\* the cause as it arose; never NoNonceFound or MultipleNonceFound; and a call
\* that has not returned has no result.
C5_ExpectedOutcome ==
    IF ~decompile(Manifest(tx)).ok
    THEN [ok |-> FALSE,
          error |-> [variant |-> "DecompileError", cause |-> decompile(Manifest(tx)).error]]
    ELSE IF ~response.ok
         THEN [ok |-> FALSE, error |-> [variant |-> "HttpRequestError", cause |-> response.error]]
         ELSE IF response.value.json = "receipt"
              THEN [ok |-> TRUE, value |-> response.value.receipt]
              ELSE [ok |-> FALSE,
                    error |-> [variant |-> "HttpRequestError",
                               cause |-> ResponseJson(response.value).error]]

C5_Outcome ==
    Called =>
        /\ pc = "returned" =>
               /\ result = C5_ExpectedOutcome
               /\ result.ok \/ result.error.variant \in {"DecompileError", "HttpRequestError"}
        /\ pc # "returned" => result = None

C5_Witness ==
    /\ pc = "returned"
    /\ response # None /\ response.ok /\ response.value.json = "other"
    /\ result = Err(HttpRequestError("decode: missing field"))

\* C6 as stated: the submission scans the instructions for the nonce; zero nonce
\* instructions give NoNonceFound, one gives its value, more give
\* MultipleNonceFound.
C6_LegacyNoncePath ==
    (Called /\ pc = "returned") =>
        LET found == NonceInstructions(Manifest(tx))
        IN  /\ Len(found) = 0 => result = Err(NoNonceFound)
            /\ Len(found) = 1 =>
                   (transaction_body # None
                    => transaction_body.nonce.value = found[1].args[1].text)
            /\ Len(found) > 1 => result = Err(MultipleNonceFound)

\* C6 as amended: the submission has no instruction scan. Whatever the manifest
\* holds (a header-based transaction has no nonce instruction), the nonce of the
\* body is the header's, and the call never returns NoNonceFound or
\* MultipleNonceFound.
C6_NonceFromHeaderOnly ==
    Called =>
        /\ transaction_body # None => transaction_body.nonce = [value |-> Header(tx).nonce]
        /\ result # None => result \notin {Err(NoNonceFound), Err(MultipleNonceFound)}

C6_Witness ==
    /\ pc = "returned"
    /\ Len(NonceInstructions(Manifest(tx))) = 0
    /\ result.ok
    /\ Header(tx).nonce = 42
    /\ transaction_body.nonce.value = 42

C8_MalformedPanics ==
    (accessed # None
     /\ ~WellFormed(AddressType(accessed.category), RawList(receipt_in, accessed.category))) =>
        /\ accessed.outcome.panicked
        /\ accessed.outcome = [panicked |-> TRUE]

C8_Witness ==
    /\ accessed # None
    /\ accessed.category = "new_resources"
    /\ receipt_in.new_resources = <<AddrA, AddrShort>>
    /\ accessed.outcome.panicked

\* C9: the transfer is submitted only after the account creation returned Ok
\* with a receipt whose new_components is non-empty and whose first entry parses,
\* and it withdraws from that first component; after an error or a receipt
\* without a new component main has panicked with no second submission; a run
\* issues at most two POSTs, the first the account creation's.
C9_TransferStarted ==
    \/ xrd_transfer_nonce # None
    \/ mpc \in {"xrd_transfer", "done"}
    \/ Len(calls) > 1
    \/ Len(posts) > 1

C9_TransferAfterAccount ==
    /\ Len(posts) <= 2
    /\ \A k \in 1..Len(posts) : posts[k].call = k
    /\ calls = SubSeq(<<"account_creation_tx", "xrd_transfer_tx">>, 1, Len(calls))
    /\ (mpc = "account_creation" /\ posts # <<>>) =>
           posts[1].json = SerializeBody(BuildBody(AccountCreationTx(account_creation_nonce.some)).value)
    /\ C9_TransferStarted =>
           /\ account_creation_result # None
           /\ account_creation_result.ok
           /\ account_creation_result.value.new_components # <<>>
           /\ LET first == from_str("ComponentAddress",
                                    account_creation_result.value.new_components[1])
              IN  /\ first.ok
                  /\ account_component_address = first.value
                  /\ Manifest(tx)[1].kind = "CallMethod"
                  /\ Manifest(tx)[1].name = NameWithdraw
                  /\ Manifest(tx)[1].address = first.value
                  /\ \A k \in 2..Len(Manifest(tx)) : Manifest(tx)[k].name # NameWithdraw
    /\ (account_creation_result # None
        /\ (~account_creation_result.ok
            \/ account_creation_result.value.new_components = <<>>)) =>
           /\ mpc = "panicked"
           /\ Len(posts) <= 1
           /\ xrd_transfer_nonce = None
    /\ (mpc = "account_creation" /\ pc = "returned" /\ ~result.ok) => ~C9_TransferStarted

C9_Witness ==
    /\ mpc = "done"
    /\ Len(posts) = 2
    /\ account_creation_result.value.new_components = <<AddrB, AddrA>>
    /\ account_component_address = from_str("ComponentAddress", AddrB).value
    /\ Manifest(tx)[1].address = account_component_address

\* C10: the two transactions of a run, signed by the same key for the same epoch
\* window, carry different nonces.
C10_NoncesDiffer ==
    /\ xrd_transfer_nonce # None => xrd_transfer_nonce.some # account_creation_nonce.some
    /\ (mpc = "xrd_transfer" /\ transaction_body # None) =>
           transaction_body.nonce.value # account_creation_nonce.some

====
